---- MODULE Spec2Model ----
(***************************************************************************)
(* Bannister V4: a WS2812B strip along a stair bannister, two motion       *)
(* sensors and an ambient light sensor (src/BannisterV4.ino).              *)
(*                                                                         *)
(* The model follows the sketch at the granularity of one presented frame  *)
(* (one FastLED.show()) or one blocking delay per step.  The motion pins   *)
(* are environment state that may change between any two steps; the light  *)
(* level is chosen when analogRead is called.                              *)
(***************************************************************************)
EXTENDS Integers, Naturals, Sequences, FiniteSets, TLC

(* ------------------------------------------------------------------ *)
(* Program constants                                                   *)
(* ------------------------------------------------------------------ *)
NUM_LEDS == 113
THRESHOLD_NIGHT == 100
THRESHOLD_MORNING == 300
THRESHOLD_DAY == 500
THRESHOLD_EVENING == 300

\* enum class LedMode { NIGHT, MORNING, DAY, EVENING }
NIGHT == 0
MORNING == 1
DAY == 2
EVENING == 3
LedMode == {NIGHT, MORNING, DAY, EVENING}

\* analogRead returns a 10-bit value
ADC_MAX == 1023
LightIntensity == 0..ADC_MAX

\* arguments and literals of the routines
PINK_BRIGHTNESS == 80
PINK_HUE == 200
FILL_BRIGHTNESS == 60
RAINBOW_BRIGHTNESS == 250
RAINBOW_FRAMES == 2000
SATURATION == 255

\* uint8_t arithmetic
U8 == 256
\* a hue step rounded up instead of down
HueFactorCeil == (255 + NUM_LEDS - 1) \div NUM_LEDS
HueFactor == 255 \div NUM_LEDS

Pixels == 0..(NUM_LEDS - 1)

(* ------------------------------------------------------------------ *)
(* Frame buffer                                                        *)
(* ------------------------------------------------------------------ *)
\* CRGB black, the value FastLED.clear() leaves in every pixel
Black == <<0, 0, 0>>

\* leds[i] = CHSV(h, s, v): the conversion to CRGB yields black when v = 0,
\* and a non-black pixel otherwise (saturation is always 255 here).
CHSV(h, s, v) == IF v = 0 THEN Black ELSE <<h, s, v>>

AllBlack == [i \in Pixels |-> Black]

(* ------------------------------------------------------------------ *)
(* Mode classifier                                                     *)
(* ------------------------------------------------------------------ *)
\* the default: branches of the two switch statements
DefaultBranch(m) == m \notin {NIGHT, MORNING, DAY, EVENING}

\* a classifier with one dark and one bright threshold and no deadband
setLedModeCollapsed(m, lightLevel) ==
  CASE m = NIGHT ->
         IF lightLevel > THRESHOLD_MORNING THEN MORNING ELSE m
    [] m = MORNING ->
         IF lightLevel > THRESHOLD_DAY THEN DAY
         ELSE IF lightLevel < THRESHOLD_MORNING THEN NIGHT ELSE m
    [] m = DAY ->
         IF lightLevel < THRESHOLD_NIGHT THEN NIGHT
         ELSE IF lightLevel < THRESHOLD_DAY THEN EVENING ELSE m
    [] m = EVENING ->
         IF lightLevel < THRESHOLD_EVENING THEN NIGHT
         ELSE IF lightLevel > THRESHOLD_EVENING THEN DAY ELSE m
    [] OTHER -> NIGHT

\* a classifier whose comparisons with the thresholds are not strict
setLedModeInclusive(m, lightLevel) ==
  CASE m = NIGHT ->
         IF lightLevel >= THRESHOLD_MORNING THEN MORNING ELSE m
    [] m = MORNING ->
         LET m1 == IF lightLevel >= THRESHOLD_DAY THEN DAY ELSE m
         IN  IF lightLevel <= THRESHOLD_NIGHT THEN NIGHT ELSE m1
    [] m = DAY ->
         IF lightLevel <= THRESHOLD_EVENING THEN EVENING ELSE m
    [] m = EVENING ->
         LET m1 == IF lightLevel <= THRESHOLD_NIGHT THEN NIGHT ELSE m
         IN  IF lightLevel >= THRESHOLD_DAY THEN DAY ELSE m1
    [] OTHER -> NIGHT

\* a classifier that lets Day fall straight to Night in the dark
setLedModeDayToNight(m, lightLevel) ==
  CASE m = NIGHT ->
         IF lightLevel > THRESHOLD_MORNING THEN MORNING ELSE m
    [] m = MORNING ->
         LET m1 == IF lightLevel > THRESHOLD_DAY THEN DAY ELSE m
         IN  IF lightLevel < THRESHOLD_NIGHT THEN NIGHT ELSE m1
    [] m = DAY ->
         LET m1 == IF lightLevel < THRESHOLD_EVENING THEN EVENING ELSE m
         IN  IF lightLevel < THRESHOLD_NIGHT THEN NIGHT ELSE m1
    [] m = EVENING ->
         LET m1 == IF lightLevel < THRESHOLD_NIGHT THEN NIGHT ELSE m
         IN  IF lightLevel > THRESHOLD_DAY THEN DAY ELSE m1
    [] OTHER -> NIGHT

\* setLedMode: the value it stores in `mode` and returns
setLedMode(m, lightLevel) ==
  CASE m = NIGHT ->
         IF lightLevel > THRESHOLD_MORNING THEN MORNING ELSE m
    [] m = MORNING ->
         LET m1 == IF lightLevel > THRESHOLD_DAY THEN DAY ELSE m
         IN  IF lightLevel < THRESHOLD_NIGHT THEN NIGHT ELSE m1
    [] m = DAY ->
         IF lightLevel < THRESHOLD_EVENING THEN EVENING ELSE m
    [] m = EVENING ->
         LET m1 == IF lightLevel < THRESHOLD_NIGHT THEN NIGHT ELSE m
         IN  IF lightLevel > THRESHOLD_DAY THEN DAY ELSE m1
    [] OTHER -> NIGHT

\* a switch that sends MORNING to the morning routine
DispatchMorningRoutine(m) ==
  CASE m = MORNING -> "doMorningRoutine"
    [] m = DAY -> "doDayRoutine"
    [] m = NIGHT -> "doNightRoutine"
    [] m = EVENING -> "doEveningRoutine"
    [] OTHER -> "default"

\* a switch with no case for EVENING
DispatchNoEvening(m) ==
  CASE m = MORNING \/ m = DAY -> "doDayRoutine"
    [] m = NIGHT -> "doNightRoutine"
    [] OTHER -> "default"

\* switch (mode) in loop(): the routine called, or the default branch
Dispatch(m) ==
  CASE m = MORNING \/ m = DAY -> "doDayRoutine"
    [] m = NIGHT -> "doNightRoutine"
    [] m = EVENING -> "doEveningRoutine"
    [] OTHER -> "default"

(* ------------------------------------------------------------------ *)
(* State                                                               *)
(* ------------------------------------------------------------------ *)
VARIABLES
  mode,                 \* LedMode mode
  pc,                   \* position in the sketch
  ambientLight,         \* loop(): uint16_t ambientLight
  upperPin, lowerPin,   \* the levels on PIN_UPPER_SENSOR / PIN_LOWER_SENSOR
  motionDetected,       \* doDayRoutine(): motionDetected
  motionUpperDetected,  \* doNightRoutine(): motionUpperDetected
  motionLowerDetected,  \* doNightRoutine(): motionLowerDetected
  brightness,           \* doPink(brightness) / the fade-out loop counter
  level,                \* doPink(): level
  length,               \* lightsFromTop/Bottom(): length
  counter,              \* doRainbow(): counter
  offset,               \* doRainbow(): offset
  leds,                 \* CRGB leds[NUM_LEDS]
  shown,                \* the frame last written to the strip
  reads,                \* sensor reads of the current loop() iteration
  ran,                  \* functions called in the current loop() iteration
  frames,               \* FastLED.show()/clear(true) calls of the iteration
  waited                \* milliseconds of delay() of the iteration

vars == <<mode, pc, ambientLight, upperPin, lowerPin, motionDetected,
          motionUpperDetected, motionLowerDetected, brightness, level,
          length, counter, offset, leds, shown, reads, ran, frames, waited>>

\* the state owned by the sketch's variables, the strip and the traces
env == <<upperPin, lowerPin>>
rainbow == <<counter, offset>>
locals == <<motionDetected, motionUpperDetected, motionLowerDetected,
            brightness, level, length, rainbow>>
strip == <<leds, shown>>
trace == <<reads, ran, frames, waited>>

\* light levels analogRead returns in the dispatch loop: every threshold, its
\* two neighbours, a value inside each band, and both ends of the ADC range
LightSamples == {0, 50, THRESHOLD_NIGHT - 1, THRESHOLD_NIGHT, THRESHOLD_NIGHT + 1,
                 250, THRESHOLD_MORNING - 1, THRESHOLD_MORNING,
                 THRESHOLD_MORNING + 1, 350, 450, THRESHOLD_DAY - 1,
                 THRESHOLD_DAY, THRESHOLD_DAY + 1, ADC_MAX}

(* ------------------------------------------------------------------ *)
(* setup()                                                             *)
(* ------------------------------------------------------------------ *)
Init ==
  /\ mode = NIGHT
  /\ pc = "loop"
  /\ ambientLight = 0
  /\ upperPin \in BOOLEAN
  /\ lowerPin \in BOOLEAN
  /\ motionDetected = FALSE
  /\ motionUpperDetected = FALSE
  /\ motionLowerDetected = FALSE
  /\ brightness = 0
  /\ level = 0
  /\ length = 0
  /\ counter = 0
  /\ offset = 0
  /\ leds = AllBlack
  /\ shown = AllBlack
  /\ reads = <<>>
  /\ ran = <<>>
  /\ frames = 0
  /\ waited = 0

(* ------------------------------------------------------------------ *)
(* Environment: the motion sensors                                     *)
(* ------------------------------------------------------------------ *)
MotionChange ==
  /\ \E u \in BOOLEAN, l \in BOOLEAN :
       /\ <<u, l>> # <<upperPin, lowerPin>>
       /\ upperPin' = u
       /\ lowerPin' = l
  /\ UNCHANGED <<mode, pc, ambientLight, locals, strip, trace>>

(* ------------------------------------------------------------------ *)
(* loop()                                                              *)
(* ------------------------------------------------------------------ *)
\* a loop() that switches on the mode held before the reading was classified
LoopOnStale(l) ==
  LET m == setLedMode(mode, l)
      branch == Dispatch(mode)
  IN  /\ pc = "loop"
      /\ ambientLight' = l
      /\ mode' = IF branch = "default" THEN NIGHT ELSE m
      /\ pc' = IF branch = "default" THEN "loop" ELSE branch
      /\ reads' = << <<"ambient", l>> >>
      /\ ran' = <<branch>>
      /\ frames' = 0
      /\ waited' = 0
      /\ UNCHANGED <<env, locals, strip>>

\* one reading, the classifier call and the switch on its result; the default
\* branch stores NIGHT and loop() returns
LoopOn(l) ==
  LET m == setLedMode(mode, l)
      branch == Dispatch(m)
  IN  /\ pc = "loop"
      /\ ambientLight' = l
      /\ mode' = IF branch = "default" THEN NIGHT ELSE m
      /\ pc' = IF branch = "default" THEN "loop" ELSE branch
      /\ reads' = << <<"ambient", l>> >>
      /\ ran' = <<branch>>
      /\ frames' = 0
      /\ waited' = 0
      /\ UNCHANGED <<env, locals, strip>>

Loop == \E l \in LightSamples : LoopOn(l)

\* an evening routine that also stores NIGHT in the mode
DoEveningRoutineSetsNight ==
  /\ pc = "doEveningRoutine"
  /\ pc' = "doNightRoutine"
  /\ mode' = NIGHT
  /\ ran' = Append(ran, "doNightRoutine")
  /\ UNCHANGED <<ambientLight, env, locals, strip, reads, frames, waited>>

\* doEveningRoutine(): same as night routine
DoEveningRoutine ==
  /\ pc = "doEveningRoutine"
  /\ pc' = "doNightRoutine"
  /\ ran' = Append(ran, "doNightRoutine")
  /\ UNCHANGED <<mode, ambientLight, env, locals, strip, reads, frames, waited>>

(* ------------------------------------------------------------------ *)
(* Frames                                                              *)
(* ------------------------------------------------------------------ *)
\* color = led * hueFactor, stored in a uint8_t
Gradient(led) == (led * HueFactor) % U8

\* for every led: leds[led] = CHSV(200, 255, level)
PinkFrame(lvl) == [i \in Pixels |-> CHSV(PINK_HUE, SATURATION, lvl)]

\* for every led: leds[led] = CHSV(led * hueFactor, 255, brightness)
FadeFrame(b) == [i \in Pixels |-> CHSV(Gradient(i), SATURATION, b)]

\* a growth frame that also lights the pixel at index length
TopFrameInclusive(buf, len) ==
  [i \in Pixels |-> IF i <= len
                    THEN CHSV(Gradient(i), SATURATION, FILL_BRIGHTNESS)
                    ELSE buf[i]]

\* lightsFromTop(): for (led = 0; led < length; ++led) leds[led] = CHSV(.., 60)
TopFrame(buf, len) ==
  [i \in Pixels |-> IF i < len
                    THEN CHSV(Gradient(i), SATURATION, FILL_BRIGHTNESS)
                    ELSE buf[i]]

\* lightsFromBottom(): for (led = NUM_LEDS - 1; led > length; --led) ...
BottomFrame(buf, len) ==
  [i \in Pixels |-> IF i > len
                    THEN CHSV(Gradient(i), SATURATION, FILL_BRIGHTNESS)
                    ELSE buf[i]]

\* return from a routine to loop(), whose own return ends the iteration
ReturnToLoop ==
  /\ pc' = "loop"
  /\ motionDetected' = FALSE
  /\ motionUpperDetected' = FALSE
  /\ motionLowerDetected' = FALSE
  /\ brightness' = 0
  /\ level' = 0
  /\ length' = 0
  /\ counter' = 0
  /\ offset' = 0

(* ------------------------------------------------------------------ *)
(* doDayRoutine() and doPink()                                         *)
(* ------------------------------------------------------------------ *)
\* digitalRead(PIN_UPPER_SENSOR) || digitalRead(PIN_LOWER_SENSOR): the lower
\* pin is read only when the upper pin is low
DayReads ==
  IF upperPin THEN << <<"upper", upperPin>> >>
  ELSE << <<"upper", upperPin>>, <<"lower", lowerPin>> >>

DoDayRoutine ==
  /\ pc = "doDayRoutine"
  /\ reads' = reads \o DayReads
  /\ IF upperPin \/ lowerPin
     THEN /\ motionDetected' = TRUE
          /\ pc' = "doPink"
          /\ brightness' = PINK_BRIGHTNESS
          /\ level' = 0
          /\ ran' = Append(ran, "doPink")
          /\ UNCHANGED <<motionUpperDetected, motionLowerDetected, length,
                         rainbow>>
     ELSE /\ ReturnToLoop
          /\ UNCHANGED ran
  /\ UNCHANGED <<mode, ambientLight, env, strip, frames, waited>>

\* rise: for (level = 0; level < brightness; ++level) { fill; show; delay(20) }
PinkRise ==
  /\ pc = "doPink"
  /\ level < brightness
  /\ leds' = PinkFrame(level)
  /\ shown' = leds'
  /\ frames' = frames + 1
  /\ waited' = waited + 20
  /\ level' = (level + 1) % U8
  /\ UNCHANGED <<mode, pc, ambientLight, env, rainbow, motionDetected,
                 motionUpperDetected, motionLowerDetected, brightness, length,
                 reads, ran>>

PinkRiseDone ==
  /\ pc = "doPink"
  /\ ~(level < brightness)
  /\ pc' = "pinkHold"
  /\ UNCHANGED <<mode, ambientLight, env, locals, strip, trace>>

\* a fall loop that starts at level = brightness
PinkHoldFromPeak ==
  /\ pc = "pinkHold"
  /\ waited' = waited + 40000
  /\ level' = brightness % U8
  /\ pc' = "pinkFall"
  /\ UNCHANGED <<mode, ambientLight, env, rainbow, motionDetected,
                 motionUpperDetected, motionLowerDetected, brightness, length,
                 strip, reads, ran, frames>>

\* delay(40000), then the fall loop starts at level = brightness - 1 (uint8_t)
PinkHold ==
  /\ pc = "pinkHold"
  /\ waited' = waited + 40000
  /\ level' = (brightness - 1) % U8
  /\ pc' = "pinkFall"
  /\ UNCHANGED <<mode, ambientLight, env, rainbow, motionDetected, motionUpperDetected,
                 motionLowerDetected, brightness, length, strip, reads, ran,
                 frames>>

\* a fall loop whose test, level >= 0, an 8-bit counter always passes
PinkFallNonNegative ==
  /\ pc = "pinkFall"
  /\ level >= 0
  /\ leds' = PinkFrame(level)
  /\ shown' = leds'
  /\ frames' = frames + 1
  /\ waited' = waited + 20
  /\ level' = (level - 1) % U8
  /\ UNCHANGED <<mode, pc, ambientLight, env, rainbow, motionDetected,
                 motionUpperDetected, motionLowerDetected, brightness, length,
                 reads, ran>>

\* fall: for (; level > 0; --level) { fill; show; delay(20) }
PinkFall ==
  /\ pc = "pinkFall"
  /\ level > 0
  /\ leds' = PinkFrame(level)
  /\ shown' = leds'
  /\ frames' = frames + 1
  /\ waited' = waited + 20
  /\ level' = level - 1
  /\ UNCHANGED <<mode, pc, ambientLight, env, rainbow, motionDetected,
                 motionUpperDetected, motionLowerDetected, brightness, length,
                 reads, ran>>

\* FastLED.clear(true) and the return to doDayRoutine()
PinkClear ==
  /\ pc = "pinkFall"
  /\ ~(level > 0)
  /\ leds' = AllBlack
  /\ shown' = AllBlack
  /\ frames' = frames + 1
  /\ pc' = "dayDelay"
  /\ UNCHANGED <<mode, ambientLight, env, locals, reads, ran, waited>>

\* a day routine that returns right after doPink(80)
DayDelayNone ==
  /\ pc = "dayDelay"
  /\ ReturnToLoop
  /\ UNCHANGED <<mode, ambientLight, env, strip, trace>>

\* delay(5000) after doPink(80), then doDayRoutine() returns
DayDelay ==
  /\ pc = "dayDelay"
  /\ waited' = waited + 5000
  /\ ReturnToLoop
  /\ UNCHANGED <<mode, ambientLight, env, strip, reads, ran, frames>>

(* ------------------------------------------------------------------ *)
(* doMorningRoutine() and doRainbow(): called from nowhere in loop()   *)
(* ------------------------------------------------------------------ *)
DoMorningRoutine ==
  /\ pc = "doMorningRoutine"
  /\ reads' = reads \o DayReads
  /\ IF upperPin \/ lowerPin
     THEN /\ motionDetected' = TRUE
          /\ pc' = "doRainbow"
          /\ brightness' = RAINBOW_BRIGHTNESS
          /\ counter' = 0
          /\ offset' = 0
          /\ ran' = Append(ran, "doRainbow")
          /\ UNCHANGED <<motionUpperDetected, motionLowerDetected, level,
                         length>>
     ELSE /\ ReturnToLoop
          /\ UNCHANGED ran
  /\ UNCHANGED <<mode, ambientLight, env, strip, frames, waited>>

\* for every led: leds[led] = CHSV((led * hueFactor + offset) % 256, 255, b)
RainbowFrame(off, b) ==
  [i \in Pixels |-> CHSV((i * HueFactor + off) % U8, SATURATION, b)]

\* for (counter = 0; counter < 2000; ++counter) { fill; show; delay(50);
\*   if (++offset > 255) offset = 0; }
RainbowStep ==
  /\ pc = "doRainbow"
  /\ counter < RAINBOW_FRAMES
  /\ leds' = RainbowFrame(offset, brightness)
  /\ shown' = leds'
  /\ frames' = frames + 1
  /\ waited' = waited + 50
  /\ offset' = IF offset + 1 > 255 THEN 0 ELSE offset + 1
  /\ counter' = counter + 1
  /\ UNCHANGED <<mode, pc, ambientLight, env, motionDetected,
                 motionUpperDetected, motionLowerDetected, brightness, level,
                 length, reads, ran>>

\* FastLED.clear(true) and the return to doMorningRoutine()
RainbowClear ==
  /\ pc = "doRainbow"
  /\ ~(counter < RAINBOW_FRAMES)
  /\ leds' = AllBlack
  /\ shown' = AllBlack
  /\ frames' = frames + 1
  /\ pc' = "morningDelay"
  /\ UNCHANGED <<mode, ambientLight, env, locals, reads, ran, waited>>

\* delay(5000) after doRainbow(250), then doMorningRoutine() returns
MorningDelay ==
  /\ pc = "morningDelay"
  /\ waited' = waited + 5000
  /\ ReturnToLoop
  /\ UNCHANGED <<mode, ambientLight, env, strip, reads, ran, frames>>

(* ------------------------------------------------------------------ *)
(* doNightRoutine()                                                    *)
(* ------------------------------------------------------------------ *)
\* a night routine with the two sensor pins exchanged
DoNightRoutineSwapped ==
  /\ pc = "doNightRoutine"
  /\ motionUpperDetected' = lowerPin
  /\ motionLowerDetected' = upperPin
  /\ reads' = reads \o << <<"lower", lowerPin>>, <<"upper", upperPin>> >>
  /\ IF upperPin
     THEN /\ pc' = "lightsFromBottom"
          /\ length' = NUM_LEDS - 1
          /\ ran' = Append(ran, "lightsFromBottom")
     ELSE /\ pc' = "nightUpperCheck"
          /\ UNCHANGED <<length, ran>>
  /\ UNCHANGED <<mode, ambientLight, env, rainbow, motionDetected, brightness, level,
                 strip, frames, waited>>

\* both pins are read, then if (motionLowerDetected) lightsFromBottom()
DoNightRoutine ==
  /\ pc = "doNightRoutine"
  /\ motionUpperDetected' = upperPin
  /\ motionLowerDetected' = lowerPin
  /\ reads' = reads \o << <<"upper", upperPin>>, <<"lower", lowerPin>> >>
  /\ IF lowerPin
     THEN /\ pc' = "lightsFromBottom"
          /\ length' = NUM_LEDS - 1
          /\ ran' = Append(ran, "lightsFromBottom")
     ELSE /\ pc' = "nightUpperCheck"
          /\ UNCHANGED <<length, ran>>
  /\ UNCHANGED <<mode, ambientLight, env, rainbow, motionDetected, brightness, level,
                 strip, frames, waited>>

\* a night routine with no delay between the two fills
NightLowerDelayNone ==
  /\ pc = "nightLowerDelay"
  /\ pc' = "nightUpperCheck"
  /\ UNCHANGED <<mode, ambientLight, env, locals, strip, trace>>

\* delay(2500) after lightsFromBottom()
NightLowerDelay ==
  /\ pc = "nightLowerDelay"
  /\ waited' = waited + 2500
  /\ pc' = "nightUpperCheck"
  /\ UNCHANGED <<mode, ambientLight, env, locals, strip, reads, ran, frames>>

\* a night routine that reads the upper pin again after the first fill
NightUpperCheckLive ==
  /\ pc = "nightUpperCheck"
  /\ reads' = Append(reads, <<"upper", upperPin>>)
  /\ IF upperPin
     THEN /\ pc' = "lightsFromTop"
          /\ length' = 0
          /\ ran' = Append(ran, "lightsFromTop")
          /\ UNCHANGED <<rainbow, motionDetected, motionUpperDetected,
                         motionLowerDetected, brightness, level>>
     ELSE /\ ReturnToLoop
          /\ UNCHANGED ran
  /\ UNCHANGED <<mode, ambientLight, env, strip, frames, waited>>

\* if (motionUpperDetected) lightsFromTop(); otherwise the routine returns
NightUpperCheck ==
  /\ pc = "nightUpperCheck"
  /\ IF motionUpperDetected
     THEN /\ pc' = "lightsFromTop"
          /\ length' = 0
          /\ ran' = Append(ran, "lightsFromTop")
          /\ UNCHANGED <<rainbow, motionDetected, motionUpperDetected,
                         motionLowerDetected, brightness, level>>
     ELSE /\ ReturnToLoop
          /\ UNCHANGED ran
  /\ UNCHANGED <<mode, ambientLight, env, strip, reads, frames, waited>>

\* delay(2500) after lightsFromTop(), then doNightRoutine() returns
NightUpperDelay ==
  /\ pc = "nightUpperDelay"
  /\ waited' = waited + 2500
  /\ ReturnToLoop
  /\ UNCHANGED <<mode, ambientLight, env, strip, reads, ran, frames>>

(* ------------------------------------------------------------------ *)
(* lightsFromTop()                                                     *)
(* ------------------------------------------------------------------ *)
\* for (length = 0; length < NUM_LEDS; ++length) { fill; show; delay(10) }
TopGrow ==
  /\ pc = "lightsFromTop"
  /\ length < NUM_LEDS
  /\ leds' = TopFrame(leds, length)
  /\ shown' = leds'
  /\ frames' = frames + 1
  /\ waited' = waited + 10
  /\ length' = (length + 1) % U8
  /\ UNCHANGED <<mode, pc, ambientLight, env, rainbow, motionDetected,
                 motionUpperDetected, motionLowerDetected, brightness, level,
                 reads, ran>>

TopGrowDone ==
  /\ pc = "lightsFromTop"
  /\ ~(length < NUM_LEDS)
  /\ pc' = "topDwell"
  /\ UNCHANGED <<mode, ambientLight, env, locals, strip, trace>>

\* delay(40000), then the fade-out loop starts at brightness = 60
TopDwell ==
  /\ pc = "topDwell"
  /\ waited' = waited + 40000
  /\ brightness' = FILL_BRIGHTNESS
  /\ pc' = "topFade"
  /\ UNCHANGED <<mode, ambientLight, env, rainbow, motionDetected, motionUpperDetected,
                 motionLowerDetected, level, length, strip, reads, ran, frames>>

\* for (brightness = 60; brightness > 0; --brightness) { fill; show; delay(20) }
TopFade ==
  /\ pc = "topFade"
  /\ brightness > 0
  /\ leds' = FadeFrame(brightness)
  /\ shown' = leds'
  /\ frames' = frames + 1
  /\ waited' = waited + 20
  /\ brightness' = brightness - 1
  /\ UNCHANGED <<mode, pc, ambientLight, env, rainbow, motionDetected,
                 motionUpperDetected, motionLowerDetected, level, length,
                 reads, ran>>

\* FastLED.clear(true) and the return to doNightRoutine()
TopClear ==
  /\ pc = "topFade"
  /\ ~(brightness > 0)
  /\ leds' = AllBlack
  /\ shown' = AllBlack
  /\ frames' = frames + 1
  /\ pc' = "nightUpperDelay"
  /\ UNCHANGED <<mode, ambientLight, env, locals, reads, ran, waited>>

(* ------------------------------------------------------------------ *)
(* lightsFromBottom()                                                  *)
(* ------------------------------------------------------------------ *)
\* for (length = NUM_LEDS - 1; length > 0; --length) { fill; show; delay(10) }
BottomGrow ==
  /\ pc = "lightsFromBottom"
  /\ length > 0
  /\ leds' = BottomFrame(leds, length)
  /\ shown' = leds'
  /\ frames' = frames + 1
  /\ waited' = waited + 10
  /\ length' = length - 1
  /\ UNCHANGED <<mode, pc, ambientLight, env, rainbow, motionDetected,
                 motionUpperDetected, motionLowerDetected, brightness, level,
                 reads, ran>>

BottomGrowDone ==
  /\ pc = "lightsFromBottom"
  /\ ~(length > 0)
  /\ pc' = "bottomDwell"
  /\ UNCHANGED <<mode, ambientLight, env, locals, strip, trace>>

\* delay(40000), then the fade-out loop starts at brightness = 60
BottomDwell ==
  /\ pc = "bottomDwell"
  /\ waited' = waited + 40000
  /\ brightness' = FILL_BRIGHTNESS
  /\ pc' = "bottomFade"
  /\ UNCHANGED <<mode, ambientLight, env, rainbow, motionDetected, motionUpperDetected,
                 motionLowerDetected, level, length, strip, reads, ran, frames>>

BottomFade ==
  /\ pc = "bottomFade"
  /\ brightness > 0
  /\ leds' = FadeFrame(brightness)
  /\ shown' = leds'
  /\ frames' = frames + 1
  /\ waited' = waited + 20
  /\ brightness' = brightness - 1
  /\ UNCHANGED <<mode, pc, ambientLight, env, rainbow, motionDetected,
                 motionUpperDetected, motionLowerDetected, level, length,
                 reads, ran>>

\* a from-bottom fill that returns without clearing the strip
BottomNoClear ==
  /\ pc = "bottomFade"
  /\ ~(brightness > 0)
  /\ pc' = "nightLowerDelay"
  /\ UNCHANGED <<mode, ambientLight, env, locals, strip, trace>>

\* FastLED.clear(true) and the return to doNightRoutine()
BottomClear ==
  /\ pc = "bottomFade"
  /\ ~(brightness > 0)
  /\ leds' = AllBlack
  /\ shown' = AllBlack
  /\ frames' = frames + 1
  /\ pc' = "nightLowerDelay"
  /\ UNCHANGED <<mode, ambientLight, env, locals, reads, ran, waited>>

(* ------------------------------------------------------------------ *)
(* The sketch                                                          *)
(* ------------------------------------------------------------------ *)
\* one step of the program: loop(), a routine or an animation
Step ==
  \/ Loop
  \/ DoEveningRoutine
  \/ DoDayRoutine
  \/ PinkRise
  \/ PinkRiseDone
  \/ PinkHold
  \/ PinkFall
  \/ PinkClear
  \/ DayDelay
  \/ DoNightRoutine
  \/ NightLowerDelay
  \/ NightUpperCheck
  \/ NightUpperDelay
  \/ TopGrow
  \/ TopGrowDone
  \/ TopDwell
  \/ TopFade
  \/ TopClear
  \/ BottomGrow
  \/ BottomGrowDone
  \/ BottomDwell
  \/ BottomFade
  \/ BottomClear

Next == Step \/ MotionChange

Spec == Init /\ [][Next]_vars

(* ------------------------------------------------------------------ *)
(* The classifier alone: loop() iterations with both motion pins low,  *)
(* so that each routine returns at once and an iteration is one call   *)
(* of setLedMode on a reading from the whole ADC range                 *)
(* ------------------------------------------------------------------ *)
InitClassifier == Init /\ ~upperPin /\ ~lowerPin

ClassifyOn(l) ==
  /\ pc = "loop"
  /\ ambientLight' = l
  /\ mode' = setLedMode(mode, l)
  /\ reads' = << <<"ambient", l>> >>
  /\ UNCHANGED <<pc, env, locals, strip, ran, frames, waited>>

Classify == \E l \in LightIntensity : ClassifyOn(l)

NextClassifier == Classify

SpecClassifier == InitClassifier /\ [][NextClassifier]_vars

(* ------------------------------------------------------------------ *)
(* doPink(brightness) alone: one call from doDayRoutine() with every   *)
(* value its uint8_t argument can take                                 *)
(* ------------------------------------------------------------------ *)
Uint8 == 0..(U8 - 1)

InitPink ==
  /\ mode = DAY
  /\ pc = "doPink"
  /\ ambientLight = ADC_MAX
  /\ upperPin = TRUE
  /\ lowerPin = FALSE
  /\ motionDetected = TRUE
  /\ motionUpperDetected = FALSE
  /\ motionLowerDetected = FALSE
  /\ brightness \in Uint8
  /\ level = 0
  /\ length = 0
  /\ counter = 0
  /\ offset = 0
  /\ leds = AllBlack
  /\ shown = AllBlack
  /\ reads = << <<"ambient", ADC_MAX>>, <<"upper", TRUE>> >>
  /\ ran = <<"doDayRoutine", "doPink">>
  /\ frames = 0
  /\ waited = 0

NextPink ==
  \/ PinkRise
  \/ PinkRiseDone
  \/ PinkHold
  \/ PinkFall
  \/ PinkClear

SpecPink == InitPink /\ [][NextPink]_vars

(* ------------------------------------------------------------------ *)
(* The sketch under fair execution: the processor keeps running, so a  *)
(* program step that is enabled is eventually taken.  Besides the      *)
(* dispatch of loop(), the specification starts doPink() with every    *)
(* 8-bit argument, doMorningRoutine() and doRainbow(), which loop()    *)
(* never calls.                                                        *)
(* ------------------------------------------------------------------ *)
\* brightness arguments of doRainbow(): no loop test of it reads them
RainbowArgs == {0, 1, PINK_BRIGHTNESS, RAINBOW_BRIGHTNESS, U8 - 1}

\* doMorningRoutine() entered with the light sensor in the morning band
InitMorning ==
  /\ mode = MORNING
  /\ pc = "doMorningRoutine"
  /\ ambientLight = THRESHOLD_MORNING + 1
  /\ upperPin \in BOOLEAN
  /\ lowerPin \in BOOLEAN
  /\ motionDetected = FALSE
  /\ motionUpperDetected = FALSE
  /\ motionLowerDetected = FALSE
  /\ brightness = 0
  /\ level = 0
  /\ length = 0
  /\ counter = 0
  /\ offset = 0
  /\ leds = AllBlack
  /\ shown = AllBlack
  /\ reads = << <<"ambient", THRESHOLD_MORNING + 1>> >>
  /\ ran = <<"doMorningRoutine">>
  /\ frames = 0
  /\ waited = 0

\* doRainbow(brightness) entered from doMorningRoutine()
InitRainbow ==
  /\ mode = MORNING
  /\ pc = "doRainbow"
  /\ ambientLight = THRESHOLD_MORNING + 1
  /\ upperPin = TRUE
  /\ lowerPin = FALSE
  /\ motionDetected = TRUE
  /\ motionUpperDetected = FALSE
  /\ motionLowerDetected = FALSE
  /\ brightness \in RainbowArgs
  /\ level = 0
  /\ length = 0
  /\ counter = 0
  /\ offset = 0
  /\ leds = AllBlack
  /\ shown = AllBlack
  /\ reads = << <<"ambient", THRESHOLD_MORNING + 1>>, <<"upper", TRUE>> >>
  /\ ran = <<"doMorningRoutine", "doRainbow">>
  /\ frames = 0
  /\ waited = 0

InitLive == Init \/ InitPink \/ InitMorning \/ InitRainbow

StepLive ==
  \/ Step
  \/ DoMorningRoutine
  \/ RainbowStep
  \/ RainbowClear
  \/ MorningDelay

\* digitalRead() samples the pins only in the step that follows loop()'s
\* dispatch, so a change of a pin is let happen while the program is between
\* two iterations: every pair of values can still be read by every routine
MotionChangeBetweenIterations ==
  /\ pc = "loop"
  /\ MotionChange

NextLive == StepLive \/ MotionChangeBetweenIterations

SpecLive == InitLive /\ [][NextLive]_vars /\ WF_vars(StepLive)

(* ------------------------------------------------------------------ *)
(* Properties                                                          *)
(* ------------------------------------------------------------------ *)

\* C1: one call of the classifier returns, from Night, Morning if the
\* intensity is above 300 and Night otherwise; from Morning, Day above 500,
\* Night below 100, Morning otherwise; from Day, Evening below 300 and Day
\* otherwise; from Evening, Night below 100, Day above 500, Evening otherwise.
C1_ClassifierTable ==
  [][LET i == ambientLight'
     IN  /\ mode = NIGHT =>
              mode' = IF i > 300 THEN MORNING ELSE NIGHT
         /\ mode = MORNING =>
              mode' = IF i > 500 THEN DAY ELSE IF i < 100 THEN NIGHT ELSE MORNING
         /\ mode = DAY =>
              mode' = IF i < 300 THEN EVENING ELSE DAY
         /\ mode = EVENING =>
              mode' = IF i < 100 THEN NIGHT ELSE IF i > 500 THEN DAY ELSE EVENING
    ]_vars

\* a call from Day or Evening on a reading just below 300 has returned Evening
C1_Witness == mode = EVENING /\ ambientLight = 299

\* C2: in every reachable state the mode is one of Night, Morning, Day and
\* Evening; whenever loop() is about to read the light the classifier maps
\* every intensity to one of the four modes, and neither the classifier's
\* nor the dispatch switch's default branch has been taken.
C2_ModeValid ==
  /\ mode \in {NIGHT, MORNING, DAY, EVENING}
  /\ \A k \in 1..Len(ran) : ran[k] # "default"
  /\ pc = "loop" =>
       /\ ~DefaultBranch(mode)
       /\ \A i \in LightIntensity :
            /\ setLedMode(mode, i) \in {NIGHT, MORNING, DAY, EVENING}
            /\ Dispatch(setLedMode(mode, i)) # "default"

\* Evening has been reached and its routine has run an animation to the end
C2_Witness == mode = EVENING /\ pc = "nightUpperDelay" /\ upperPin

\* C3: from Day, a reading between 350 and 450 leaves the mode Day; from
\* Evening, such a reading leaves it Evening; from Night, a reading of at most
\* 300 leaves it Night.  Holding at every call, it holds along every sequence
\* of such readings.
C3_Hysteresis ==
  [][LET i == ambientLight'
     IN  /\ (mode = DAY /\ i >= 350 /\ i <= 450) => mode' = DAY
         /\ (mode = EVENING /\ i >= 350 /\ i <= 450) => mode' = EVENING
         /\ (mode = NIGHT /\ i <= 300) => mode' = NIGHT
    ]_vars

\* Evening survived a reading inside the deadband: Day enters Evening only
\* below 300, so a reading of 400 in Evening was classified from Evening
C3_Witness == mode = EVENING /\ ambientLight = 400

\* C4 as stated: from Morning, a reading of exactly 100 switches to Night.
C4_AsStated ==
  [][(mode = MORNING /\ ambientLight' = 100) => mode' = NIGHT]_vars

\* C4, amended: from Morning, a reading of exactly 100 leaves the mode
\* Morning (the comparison with 100 is strict); a reading of 99 switches to
\* Night.
C4_BoundaryAt100 ==
  [][/\ (mode = MORNING /\ ambientLight' = 100) => mode' = MORNING
     /\ (mode = MORNING /\ ambientLight' = 99) => mode' = NIGHT
    ]_vars

\* Morning after a reading of exactly 100: Night needs more than 300 to leave
\* and Day never enters Morning, so the call was made from Morning
C4_Witness == mode = MORNING /\ ambientLight = 100

\* C5: a classifier call from Night returns Night or Morning, and a call
\* from Day returns Day or Evening, so every run passes through Evening
\* between Day and a later Night and through Morning between Night and a
\* later Day; Day enters Evening only on a reading below 300 and Evening
\* enters Night only on a reading below 100.
C5_ModeOrdering ==
  [][/\ mode = NIGHT => mode' \in {NIGHT, MORNING}
     /\ mode = DAY => mode' \in {DAY, EVENING}
     /\ (mode = DAY /\ mode' = EVENING) => ambientLight' < 300
     /\ (mode = EVENING /\ mode' = NIGHT) => ambientLight' < 100
     /\ (mode = NIGHT /\ mode' = MORNING) => ambientLight' > 300
     /\ (mode = MORNING /\ mode' = DAY) => ambientLight' > 500
    ]_vars

\* Day has been reached (through Morning) and a dark reading has been taken
\* in it: the mode is Evening, not Night
C5_Witness == mode = EVENING /\ ambientLight = 0

(* Vocabulary of the dispatch and routine properties *)
IsRoutine(f) == f \in {"doDayRoutine", "doNightRoutine"}
IsAnimation(f) == f \in {"doPink", "doRainbow", "lightsFromTop", "lightsFromBottom"}
RoutinesOf(r) == SelectSeq(r, IsRoutine)
AnimationsOf(r) == SelectSeq(r, IsAnimation)
SampledIn(r, pin, v) == \E k \in 1..Len(r) : r[k] = <<pin, v>>
PinkPcs == {"doPink", "pinkHold", "pinkFall"}
TopPcs == {"lightsFromTop", "topDwell", "topFade"}
BottomPcs == {"lightsFromBottom", "bottomDwell", "bottomFade"}
PinkFrameCount == PINK_BRIGHTNESS + (PINK_BRIGHTNESS - 1) + 1
TopFrameCount == NUM_LEDS + FILL_BRIGHTNESS + 1
BottomFrameCount == (NUM_LEDS - 1) + FILL_BRIGHTNESS + 1
BottomMillis == (NUM_LEDS - 1) * 10 + 40000 + FILL_BRIGHTNESS * 20
PinkMillis == (PINK_BRIGHTNESS + (PINK_BRIGHTNESS - 1)) * 20 + 40000
\* the animations an iteration runs, from its mode and the values it sampled
AnimationsFor(m, r) ==
  IF m \in {MORNING, DAY}
  THEN IF SampledIn(r, "upper", TRUE) \/ SampledIn(r, "lower", TRUE)
       THEN <<"doPink">> ELSE <<>>
  ELSE (IF SampledIn(r, "lower", TRUE) THEN <<"lightsFromBottom">> ELSE <<>>)
       \o (IF SampledIn(r, "upper", TRUE) THEN <<"lightsFromTop">> ELSE <<>>)

\* C6: in every loop iteration the switch acts on the mode the classifier
\* returned for that iteration's reading: Morning or Day calls the Day
\* routine, Night or Evening calls the Night routine (Evening through
\* doEveningRoutine), and exactly one routine is called per iteration.
C6_DispatchMapping ==
  [][/\ (pc = "loop" /\ pc' # "loop") =>
          /\ mode' = setLedMode(mode, ambientLight')
          /\ mode' \in {MORNING, DAY} =>
               (pc' = "doDayRoutine" /\ ran' = <<"doDayRoutine">>)
          /\ mode' = NIGHT =>
               (pc' = "doNightRoutine" /\ ran' = <<"doNightRoutine">>)
          /\ mode' = EVENING =>
               (pc' = "doEveningRoutine" /\ RoutinesOf(ran') = <<>>)
     /\ (pc = "doEveningRoutine" /\ pc' # pc) => pc' = "doNightRoutine"
     /\ pc' \notin {"loop", "doEveningRoutine"} =>
          RoutinesOf(ran') =
            <<IF mode' \in {MORNING, DAY} THEN "doDayRoutine" ELSE "doNightRoutine">>
     /\ (pc' = "loop" /\ ran' # <<>>) =>
          RoutinesOf(ran') =
            <<IF mode' \in {MORNING, DAY} THEN "doDayRoutine" ELSE "doNightRoutine">>
    ]_vars

\* an Evening iteration has reached the Night routine through doEveningRoutine
C6_Witness ==
  /\ mode = EVENING
  /\ pc = "doNightRoutine"
  /\ ran = <<"doEveningRoutine", "doNightRoutine">>

C9_NightSequencing ==
  [][/\ (pc' = "loop" /\ ran' # <<>> /\ mode' \in {NIGHT, EVENING}) =>
          AnimationsOf(ran') =
            (IF SampledIn(reads', "lower", TRUE)
             THEN <<"lightsFromBottom">> ELSE <<>>)
            \o (IF SampledIn(reads', "upper", TRUE)
                THEN <<"lightsFromTop">> ELSE <<>>)
     /\ (pc # "lightsFromTop" /\ pc' = "lightsFromTop") =>
          /\ pc = "nightUpperCheck"
          /\ leds = AllBlack
          /\ shown = AllBlack
          /\ motionLowerDetected =>
               /\ frames = BottomFrameCount
               /\ waited = BottomMillis + 2500
     /\ pc' \in BottomPcs \cup {"nightLowerDelay"} =>
          AnimationsOf(ran') = <<"lightsFromBottom">>
     /\ (pc \in BottomPcs /\ pc' \notin BottomPcs) => pc' = "nightLowerDelay"
     /\ (pc = "nightLowerDelay" /\ pc' # pc) => pc' = "nightUpperCheck"
    ]_vars

\* both zones were sampled with motion, the from-bottom fill is over and the
\* from-top fill is growing
C9_Witness ==
  /\ pc = "lightsFromTop"
  /\ motionLowerDetected
  /\ motionUpperDetected
  /\ length = 5
  /\ ran = <<"doNightRoutine", "lightsFromBottom", "lightsFromTop">>

\* C10: from the start of a routine's first animation to the routine's return
\* no sensor is read; whatever the motion pins do, a started animation goes
\* on to its final clear, having presented all its frames; and the animations
\* an iteration has run are those its mode and the values sampled at the
\* start of its routine determine.
C10_NoSensingWhileAnimating ==
  [][/\ pc \in PinkPcs \cup TopPcs \cup BottomPcs
               \cup {"dayDelay", "nightLowerDelay", "nightUpperCheck",
                     "nightUpperDelay"} => reads' = reads
     /\ (pc \in PinkPcs /\ pc' \notin PinkPcs) =>
          (pc' = "dayDelay" /\ frames' = PinkFrameCount /\ shown' = AllBlack)
     /\ (pc \in BottomPcs /\ pc' \notin BottomPcs) =>
          (pc' = "nightLowerDelay" /\ frames' = BottomFrameCount
           /\ shown' = AllBlack)
     /\ (pc \in TopPcs /\ pc' \notin TopPcs) =>
          /\ pc' = "nightUpperDelay"
          /\ frames' = TopFrameCount
                        + (IF motionLowerDetected THEN BottomFrameCount ELSE 0)
          /\ shown' = AllBlack
     /\ (pc' = "loop" /\ ran' # <<>>) =>
          AnimationsOf(ran') = AnimationsFor(mode', reads')
    ]_vars

\* upper-zone motion arrived while the from-bottom fill was fading out and was
\* not among the values the routine sampled
C10_Witness ==
  /\ pc = "bottomFade"
  /\ upperPin
  /\ ~lowerPin
  /\ ~motionUpperDetected

C12_ModeOnlyByClassifier ==
  /\ mode = NIGHT
  /\ [][(pc # "loop" => mode' = mode)
        /\ (mode' # mode =>
              (pc = "loop" /\ mode' = setLedMode(mode, ambientLight')))
       ]_vars

\* a long animation is under way in a mode other than the initial one
C12_Witness == mode = EVENING /\ pc = "topFade" /\ brightness = 30

\* the frame the pink fade presents at brightness v
PinkAt(v) == [i \in Pixels |-> IF v = 0 THEN <<0, 0, 0>> ELSE <<200, 255, v>>]

\* C13: the pink fade with peak brightness 0 presents no rise frame, holds,
\* presents no fall frame, and its only presentation is the final clear.
C13_AsStated ==
  brightness = 0 =>
    /\ pc \in PinkPcs => (frames = 0 /\ shown = AllBlack)
    /\ pc = "dayDelay" => (frames = 1 /\ waited = 40000 /\ shown = AllBlack)

\* C14: for every peak brightness B in 1..255 the pink fade presents B rise
\* frames of brightness 0, 1, ..., B-1 in that order, holds, presents B-1
\* fall frames of brightness B-1, ..., 1 in that order, then clears and
\* presents; every presented frame is uniform over the N pixels and none is
\* brighter than B-1.
C14_PinkFrames ==
  brightness >= 1 =>
    /\ leds = shown
    /\ \A i \in Pixels : shown[i] = shown[0] /\ shown[i][3] <= brightness - 1
    /\ pc = "doPink" =>
         /\ level <= brightness
         /\ frames = level
         /\ level >= 1 => shown = PinkAt(level - 1)
    /\ pc = "pinkHold" =>
         /\ frames = brightness
         /\ waited = 20 * brightness
         /\ shown = PinkAt(brightness - 1)
    /\ pc = "pinkFall" =>
         /\ level <= brightness - 1
         /\ frames = brightness + (brightness - 1 - level)
         /\ waited = 20 * frames + 40000
         /\ shown = PinkAt(IF level = brightness - 1 THEN level ELSE level + 1)
    /\ pc = "dayDelay" =>
         /\ frames = brightness + (brightness - 1) + 1
         /\ shown = AllBlack

\* the fall of a fade with peak brightness 255 is half way down
C14_Witness ==
  /\ pc = "pinkFall"
  /\ brightness = 255
  /\ level = 100
  /\ frames = 255 + 154

\* pixel i of a fill at brightness b, and the fully lit strip
FillAt(i, b) == <<i * (255 \div NUM_LEDS), 255, b>>
FadeAt(b) == [i \in Pixels |-> FillAt(i, b)]
\* frames presented before the from-top fill of the iteration started
TopBase == IF motionLowerDetected THEN BottomFrameCount ELSE 0

\* C15: the growth phase of the from-top fill presents a frame for every lit
\* length from 0 to N inclusive, so that when the long dwell begins all N
\* pixels are lit at brightness 60.
C15_AsStated ==
  pc = "topDwell" =>
    /\ frames = TopBase + NUM_LEDS + 1
    /\ \A i \in Pixels : leds[i] = FillAt(i, 60) /\ shown[i] = FillAt(i, 60)

\* C16: every frame the from-top fill presents while growing, with lit
\* length L, has the pixels of [0, L) lit and the pixels of [L, N) still
\* black from the preceding clear; and a pixel lit during the growth stays
\* lit through the growth and the dwell.
C16_FillMonotone ==
  [][/\ (pc' = "lightsFromTop" /\ length' >= 1) =>
          \A i \in Pixels :
            /\ i < length' - 1 => shown'[i] = FillAt(i, 60)
            /\ i >= length' - 1 => shown'[i] = <<0, 0, 0>>
     /\ (pc' = "lightsFromTop" /\ length' = 0) => leds' = AllBlack
     /\ pc \in {"lightsFromTop", "topDwell"} =>
          \A i \in Pixels : leds[i] # <<0, 0, 0>> => leds'[i] # <<0, 0, 0>>
    ]_vars

\* the frame of lit length 56 has been presented
C16_Witness ==
  /\ pc = "lightsFromTop"
  /\ length = 57
  /\ shown[55] # Black
  /\ shown[56] = Black

\* C17: the from-bottom fill presents as many growth frames as the from-top
\* fill; the lit set of its k-th growth frame is the mirror (i -> N-1-i) of
\* the lit set [0, k-1) of the from-top fill's k-th growth frame, each lit
\* pixel i at its gradient hue and brightness 60; and the whole strip is lit
\* for the dwell.
C17_AsStated ==
  /\ (pc = "lightsFromBottom" /\ frames >= 1) =>
       \A i \in Pixels :
         shown[i] = IF (NUM_LEDS - 1 - i) < frames - 1
                    THEN FillAt(i, 60) ELSE <<0, 0, 0>>
  /\ (pc = "topDwell" /\ ~motionLowerDetected) => frames = NUM_LEDS
  /\ pc = "bottomDwell" =>
       /\ frames = NUM_LEDS
       /\ \A i \in Pixels : leds[i] = FillAt(i, 60)

\* the part of C17 that the code does satisfy: frame by frame, the lit sets
\* of the two fills mirror each other
C17_MirrorWhileGrowing ==
  /\ (pc = "lightsFromBottom" /\ frames >= 1) =>
       \A i \in Pixels :
         shown[i] = IF (NUM_LEDS - 1 - i) < frames - 1
                    THEN FillAt(i, 60) ELSE <<0, 0, 0>>
  /\ (pc = "topDwell" /\ ~motionLowerDetected) => frames = NUM_LEDS

\* C18: in both fills the fade-out presents, after the dwell, 60 frames of
\* brightness 60, 59, ..., 1 in that order, each with every pixel i at hue
\* i * (255 div N), a hue within 0..255 that does not decrease with i; then
\* the strip is cleared and presented.
C18_FadeOut ==
  /\ \A i \in Pixels :
       /\ i * (255 \div NUM_LEDS) \in 0..255
       /\ i > 0 => (i - 1) * (255 \div NUM_LEDS) <= i * (255 \div NUM_LEDS)
  /\ pc = "topFade" =>
       /\ brightness <= 60
       /\ frames = TopBase + NUM_LEDS + (60 - brightness)
       /\ brightness < 60 => shown = FadeAt(brightness + 1)
  /\ pc = "nightUpperDelay" =>
       /\ frames = TopBase + NUM_LEDS + 60 + 1
       /\ shown = AllBlack
  /\ pc = "bottomFade" =>
       /\ brightness <= 60
       /\ frames = (NUM_LEDS - 1) + (60 - brightness)
       /\ brightness < 60 => shown = FadeAt(brightness + 1)
  /\ pc = "nightLowerDelay" =>
       /\ frames = (NUM_LEDS - 1) + 60 + 1
       /\ shown = AllBlack

\* the from-bottom fill is half way through its fade-out
C18_Witness == pc = "bottomFade" /\ brightness = 30 /\ shown = FadeAt(31)

\* C19: wherever loop() reads the light sensor or a routine reads the motion
\* sensors, and between the two fills of a Night routine, every pixel of the
\* frame buffer is black and so is the frame last presented.
C19_DarkBetweenAnimations ==
  pc \in {"loop", "doDayRoutine", "doEveningRoutine", "doNightRoutine",
          "nightLowerDelay", "nightUpperCheck", "nightUpperDelay", "dayDelay"}
  => (leds = AllBlack /\ shown = AllBlack)

\* the from-bottom fill and its delay are over and the upper check is next
C19_Witness ==
  /\ pc = "nightUpperCheck"
  /\ motionLowerDetected
  /\ frames = BottomFrameCount

(* ------------------------------------------------------------------ *)
(* C20: every animation (pink for each 8-bit argument, the two fills,  *)
(* the rainbow) ends after finitely many frames: at most 2001 frames   *)
(* are presented between two sensor reads, a started animation         *)
(* eventually makes its final clear, and loop() reads the light sensor *)
(* again and again.                                                    *)
(* ------------------------------------------------------------------ *)
RainbowPcs == {"doRainbow"}
Animating == pc \in PinkPcs \cup TopPcs \cup BottomPcs \cup RainbowPcs
\* the most frames an animation presents before its final clear: 2000 for the
\* rainbow, and no more than 2 * 255 for doPink(255) and the fills
FrameLimit ==
  IF pc \in RainbowPcs THEN RAINBOW_FRAMES ELSE 2 * (U8 - 1)

C20_AnimationsTerminate ==
  /\ [](Animating => frames <= FrameLimit)
  /\ []<>(pc = "loop")
  /\ Animating ~> (~Animating /\ leds = AllBlack /\ shown = AllBlack)

\* the longest pink run, doPink(0), has made its 255 fall frames and its
\* final clear
C20_Witness ==
  /\ pc = "dayDelay"
  /\ brightness = 0
  /\ frames = U8
  /\ shown = AllBlack

====
